---- MODULE Spec2Model ----
(***************************************************************************)
(* Graphics settings dialog (sample 54_GraphicsMode): the Resolution value *)
(* type, the display-mode queries, the refresh/apply routines of the two   *)
(* tabs and the event handlers.                                            *)
(*                                                                         *)
(* A String is a sequence of one-character strings, so that formatting and *)
(* parsing are computed character by character.  Widget indices are        *)
(* 0-based as in the source; TLA+ sequences are 1-based.                   *)
(***************************************************************************)
EXTENDS Integers, Sequences, FiniteSets

VARIABLES
    displays,    \* SDL: per monitor, the display modes, the desktop mode
    graphics,    \* Graphics subsystem: the current screen mode and window
    renderer,    \* Renderer subsystem: the quality settings
    engine,      \* Engine::maxFps_ and the SDL window's resizable flag
    ui,          \* the option widgets, the Apply button, the window
    app,         \* GraphicsSettings: refreshing_, needs_apply_, windowed_*
    pc,          \* "init" before Start; "idle"; inside a refresh routine
    hist,        \* observers: who called SetMode in the last step, ...
    probe        \* harness for the pure functions (FromString, ToString)

vars == <<displays, graphics, renderer, engine, ui, app, pc, hist, probe>>

-----------------------------------------------------------------------------
(* Bounds of the model *)

\* longest input string given to Resolution::FromString
MaxStrLen == 4
\* widths, heights and refresh rates formatted and parsed back run over
\* 0..MaxDim and SampleDims
MaxDim == 11
\* display modes per monitor
MaxModes == 2
\* longest display-mode list given to FillResolutions on its own, short of
\* the long list
MaxFillModes == 3
\* length of the long display-mode list given to FillResolutions on its own
MaxLongModes == 18
\* highest FPS-limit index the user picks in the dialog specification
MaxFpsChoice == 1

-----------------------------------------------------------------------------
(* Strings *)

Digits == <<"0", "1", "2", "3", "4", "5", "6", "7", "8", "9">>

IsDigit(c) == \E d \in 1..10 : Digits[d] = c

DigitVal(c) == (CHOOSE d \in 1..10 : Digits[d] = c) - 1

\* the decimal digits of n >= 0, as printf writes them
RECURSIVE NatDigits(_)
NatDigits(n) ==
    IF n < 10 THEN <<Digits[n + 1]>>
    ELSE NatDigits(n \div 10) \o <<Digits[(n % 10) + 1]>>

\* the least int
INT_MIN == -2147483647 - 1

\* printf("%d", n)
FormatInt(n) ==
    IF n = INT_MIN
    THEN <<"-", "2", "1", "4", "7", "4", "8", "3", "6", "4", "8">>
    ELSE IF n < 0 THEN <<"-">> \o NatDigits(0 - n) ELSE NatDigits(n)

\* An int or a long is held as its bytes, least significant first, so that
\* arithmetic keeps the width of the type.

\* the four bytes of the int n (two's complement)
Bytes32(n) ==
    LET m   == IF n < 0 THEN (n + 2147483647) + 1 ELSE n
        top == m \div 16777216
    IN  <<m % 256, (m \div 256) % 256, (m \div 65536) % 256,
          IF n < 0 THEN top + 128 ELSE top>>

\* the int of four bytes
Int32(b) ==
    (IF b[4] >= 128 THEN (b[4] - 256) * 16777216 ELSE b[4] * 16777216)
        + b[3] * 65536 + b[2] * 256 + b[1]

\* a[i]*b[k+1-i] summed over i..k: column k of the long multiplication
RECURSIVE ColumnSum(_, _, _, _)
ColumnSum(a, b, k, i) ==
    IF i > k THEN 0 ELSE a[i] * b[k + 1 - i] + ColumnSum(a, b, k, i + 1)

\* the low four bytes of the product of a and b, from column k on
RECURSIVE MulColumns(_, _, _, _)
MulColumns(a, b, k, carry) ==
    IF k > 4 THEN <<>>
    ELSE LET t == carry + ColumnSum(a, b, k, 1)
         IN  <<t % 256>> \o MulColumns(a, b, k + 1, t \div 256)

\* x * y in int: the product wraps at 32 bits (signed overflow is undefined;
\* the build compiles it to a wrapping multiplication)
Mul32(x, y) ==
    IF x >= 0 /\ x <= 46340 /\ y >= 0 /\ y <= 46340
    THEN x * y    \* no product of these passes INT_MAX
    ELSE Int32(MulColumns(Bytes32(x), Bytes32(y), 1, 0))

\* a / b in int for b > 0: the quotient is truncated toward zero
Div32(a, b) ==
    IF a >= 0 \/ a % b = 0 THEN a \div b ELSE (a \div b) + 1

\* -x in int
Neg32(x) == IF x = INT_MIN THEN x ELSE 0 - x

\* bytes * m + a from byte k on, with the carry out of the last byte
RECURSIVE MulAdd(_, _, _, _)
MulAdd(bytes, k, m, a) ==
    IF k > Len(bytes) THEN [bytes |-> <<>>, carry |-> a]
    ELSE LET t    == bytes[k] * m + a
             rest == MulAdd(bytes, k + 1, m, t \div 256)
         IN  [bytes |-> <<t % 256>> \o rest.bytes, carry |-> rest.carry]

Lower == <<"a", "b", "c", "d", "e", "f", "g", "h", "i", "j", "k", "l", "m",
           "n", "o", "p", "q", "r", "s", "t", "u", "v", "w", "x", "y", "z">>
Upper == <<"A", "B", "C", "D", "E", "F", "G", "H", "I", "J", "K", "L", "M",
           "N", "O", "P", "Q", "R", "S", "T", "U", "V", "W", "X", "Y", "Z">>

\* the value of c as a digit of strtol, letters counting from 10; 36 when c
\* is no digit in any base
CharVal(c) ==
    IF IsDigit(c) THEN DigitVal(c)
    ELSE IF \E k \in 1..26 : Lower[k] = c
    THEN 9 + (CHOOSE k \in 1..26 : Lower[k] = c)
    ELSE IF \E k \in 1..26 : Upper[k] = c
    THEN 9 + (CHOOSE k \in 1..26 : Upper[k] = c)
    ELSE 36

\* the vertical tab (character 11), which has no escape in a string
VerticalTab == ""

\* isspace in the C locale: space, \t, \n, \v, \f, \r
IsSpace(c) == c \in {" ", "\t", "\n", VerticalTab, "\f", "\r"}

\* strtol's digits: the longest prefix of s, from position i on, whose
\* characters are digits below base; acc is the magnitude read so far as the
\* eight bytes of a long, acc.over telling that it has passed LONG_MAX
RECURSIVE ReadDigits(_, _, _, _)
ReadDigits(s, i, base, acc) ==
    IF i <= Len(s) /\ CharVal(s[i]) < base
    THEN LET m == MulAdd(acc.bytes, 1, base, CharVal(s[i]))
         IN  ReadDigits(s, i + 1, base,
                        [bytes |-> m.bytes,
                         over  |-> acc.over \/ m.carry # 0 \/ m.bytes[8] >= 128])
    ELSE acc

RECURSIVE SkipSpace(_, _)
SkipSpace(s, i) == IF i <= Len(s) /\ IsSpace(s[i]) THEN SkipSpace(s, i + 1) ELSE i

\* the base strtol reads in: 16 after "0x" or "0X" (hex), with base 0 octal
\* after a leading "0" (zero) and decimal otherwise
DigitBase(base, zero, hex) ==
    IF hex THEN 16
    ELSE IF base # 0 THEN base
    ELSE IF zero THEN 8 ELSE 10

\* the long strtol has read, cast to int: LONG_MAX or LONG_MIN when the digits
\* passed it, and the low 32 bits kept
CastToInt(v, neg) ==
    IF v.over THEN (IF neg THEN 0 ELSE -1)
    ELSE IF neg THEN Neg32(Int32(SubSeq(v.bytes, 1, 4)))
    ELSE Int32(SubSeq(v.bytes, 1, 4))

\* strtol from the digits on: i is the position after the sign, hex tells
\* that "0x" or "0X" stands there
ToIntDigits(s, base, neg, i, hex) ==
    CastToInt(ReadDigits(s, IF hex THEN i + 2 ELSE i,
                         DigitBase(base, i <= Len(s) /\ s[i] = "0", hex),
                         [bytes |-> <<0, 0, 0, 0, 0, 0, 0, 0>>, over |-> FALSE]),
              neg)

\* strtol from the optional sign on: i is the position after the white space
ToIntSigned(s, base, i, signed) ==
    ToIntDigits(s, base, signed /\ s[i] = "-", IF signed THEN i + 1 ELSE i,
                /\ base \in {0, 16}
                /\ Len(s) >= (IF signed THEN i + 2 ELSE i + 1)
                /\ s[IF signed THEN i + 1 ELSE i] = "0"
                /\ s[IF signed THEN i + 2 ELSE i + 1] \in {"x", "X"})

\* strtol after the white space
ToIntFrom(s, base, i) == ToIntSigned(s, base, i, i <= Len(s) /\ s[i] \in {"-", "+"})

\* ToInt(source, base) == (int)strtol(source, nullptr, base), an illegal base
\* read as 10: leading white space, an optional sign, with base 0 or 16 an
\* optional "0x" or "0X", with base 0 a leading "0" selecting octal, then
\* digits; 0 when there are none.  strtol returns a 64-bit long
ToInt(s, base) ==
    ToIntFrom(s, IF base < 0 \/ base > 36 \/ base = 1 THEN 10 ELSE base, SkipSpace(s, 1))

\* String::Split(separator), keepEmptyStrings = false: the maximal runs of
\* characters other than sep; cur is the run being read
RECURSIVE SplitFrom(_, _, _, _)
SplitFrom(s, i, sep, cur) ==
    IF i > Len(s) THEN (IF Len(cur) > 0 THEN <<cur>> ELSE <<>>)
    ELSE IF s[i] = sep
         THEN (IF Len(cur) > 0 THEN <<cur>> ELSE <<>>) \o SplitFrom(s, i + 1, sep, <<>>)
         ELSE SplitFrom(s, i + 1, sep, Append(cur, s[i]))

Split(s, sep) == SplitFrom(s, 1, sep, <<>>)

-----------------------------------------------------------------------------
(* struct Resolution *)

Resolution(w, h, r) == [width |-> w, height |-> h, refreshrate |-> r]

\* Resolution::operator>
ResGreater(a, b) == Mul32(a.width, a.height) > Mul32(b.width, b.height)

\* Resolution::operator<
ResLess(a, b) == Mul32(a.width, a.height) < Mul32(b.width, b.height)

\* a parser that takes the rate of "WxH@RHz" from the wrong token
FromString_RateFromHeight(s) ==
    LET tokens == Split(s, "x") IN
    IF Len(tokens) > 2
    THEN Resolution(ToInt(tokens[1], 0), ToInt(tokens[2], 0), ToInt(tokens[3], 0))
    ELSE IF Len(tokens) = 2
    THEN LET rate_tokens == Split(tokens[2], "@") IN
         IF Len(rate_tokens) > 1
         THEN Resolution(ToInt(tokens[1], 0), ToInt(rate_tokens[1], 10),
                         ToInt(rate_tokens[1], 10))
         ELSE Resolution(ToInt(tokens[1], 0), ToInt(tokens[2], 0), 0)
    ELSE Resolution(0, 0, 0)

\* a parser that reads a lone token as the width
FromString_WidthOnly(s) ==
    LET tokens == Split(s, "x") IN
    IF Len(tokens) > 2
    THEN Resolution(ToInt(tokens[1], 0), ToInt(tokens[2], 0), ToInt(tokens[3], 0))
    ELSE IF Len(tokens) = 2
    THEN LET rate_tokens == Split(tokens[2], "@") IN
         IF Len(rate_tokens) > 1
         THEN Resolution(ToInt(tokens[1], 0), ToInt(rate_tokens[1], 10),
                         ToInt(rate_tokens[2], 10))
         ELSE Resolution(ToInt(tokens[1], 0), ToInt(tokens[2], 0), 0)
    ELSE IF Len(tokens) = 1
    THEN Resolution(ToInt(tokens[1], 0), 0, 0)
    ELSE Resolution(0, 0, 0)

\* Resolution::FromString
FromString(s) ==
    LET tokens == Split(s, "x") IN
    IF Len(tokens) > 2
    THEN Resolution(ToInt(tokens[1], 0), ToInt(tokens[2], 0), ToInt(tokens[3], 0))
    ELSE IF Len(tokens) = 2
    THEN LET rate_tokens == Split(tokens[2], "@") IN
         IF Len(rate_tokens) > 1
         THEN Resolution(ToInt(tokens[1], 0), ToInt(rate_tokens[1], 10),
                         ToInt(rate_tokens[2], 10))
         ELSE Resolution(ToInt(tokens[1], 0), ToInt(tokens[2], 0), 0)
    ELSE Resolution(0, 0, 0)

\* Resolution::ToString
ToString(r, with_rate) ==
    IF ~with_rate
    THEN FormatInt(r.width) \o <<"x">> \o FormatInt(r.height)
    ELSE FormatInt(r.width) \o <<"x">> \o FormatInt(r.height) \o <<"@">>
         \o FormatInt(r.refreshrate) \o <<"H", "z">>

-----------------------------------------------------------------------------
(* Container helpers *)

\* the in-place reversal loops of FillRates, FillResolutions and
\* RefreshVideoOptions: element i swapped with element Size-1-i
Reverse(seq) == [i \in 1..Len(seq) |-> seq[Len(seq) + 1 - i]]

\* one pass of InsertionSort's inner loop: x moves left past every element
\* it compares greater than
RECURSIVE InsertDesc(_, _)
InsertDesc(sorted, x) ==
    IF Len(sorted) > 0 /\ ResGreater(x, sorted[Len(sorted)])
    THEN Append(InsertDesc(SubSeq(sorted, 1, Len(sorted) - 1), x), sorted[Len(sorted)])
    ELSE Append(sorted, x)

\* InsertionSort(begin, end, greater())
RECURSIVE InsertionSort(_)
InsertionSort(seq) ==
    IF Len(seq) = 0 THEN <<>>
    ELSE InsertDesc(InsertionSort(SubSeq(seq, 1, Len(seq) - 1)), seq[Len(seq)])

\* ranges longer than this get a quicksort pass before the insertion sort
QUICKSORT_THRESHOLD == 16

\* Swap of the elements at i and j; iterators are 0-based offsets from Begin()
Swap(seq, i, j) == [seq EXCEPT ![i + 1] = seq[j + 1], ![j + 1] = seq[i + 1]]

\* while (compare(pivotValue, the element at --j));
RECURSIVE ScanDown(_, _, _)
ScanDown(seq, j, pivotValue) ==
    IF ResGreater(pivotValue, seq[j]) THEN ScanDown(seq, j - 1, pivotValue) ELSE j - 1

\* while (compare(the element at ++i, pivotValue));
RECURSIVE ScanUp(_, _, _)
ScanUp(seq, i, pivotValue) ==
    IF ResGreater(seq[i + 2], pivotValue) THEN ScanUp(seq, i + 1, pivotValue) ELSE i + 1

\* the partition loop of InitialQuickSort: the sequence and j when it breaks
RECURSIVE Partition(_, _, _, _)
RECURSIVE PartitionStep(_, _, _, _)
Partition(seq, i, j, pivotValue) ==
    PartitionStep(seq, ScanUp(seq, i, pivotValue), ScanDown(seq, j, pivotValue),
                  pivotValue)

\* the partition loop after its two scans
PartitionStep(seq, i, j, pivotValue) ==
    IF i < j THEN Partition(Swap(seq, i, j), i, j, pivotValue)
    ELSE [seq |-> seq, j |-> j]

\* the pivot of InitialQuickSort: the median of the first, the middle and the
\* last element
MedianPivot(first, middle, last, begin, end) ==
    IF ResGreater(first, middle) /\ ResGreater(last, first)
    THEN begin
    ELSE IF ResGreater(last, middle) /\ ResGreater(first, last)
    THEN end - 1
    ELSE begin + ((end - begin) \div 2)

\* InitialQuickSort(begin, end, greater()): the range is partitioned about
\* the pivot, the left part sorted by recursion, the right part by the loop
RECURSIVE InitialQuickSort(_, _, _)
RECURSIVE QuickSortParts(_, _, _)
InitialQuickSort(seq, begin, end) ==
    IF end - begin > QUICKSORT_THRESHOLD
    THEN QuickSortParts(
             Partition(seq, begin - 1, end,
                       seq[MedianPivot(seq[begin + 1],
                                       seq[begin + ((end - begin) \div 2) + 1],
                                       seq[end], begin, end) + 1]),
             begin, end)
    ELSE seq

\* InitialQuickSort after the partition p
QuickSortParts(p, begin, end) ==
    InitialQuickSort(InitialQuickSort(p.seq, begin, p.j + 1), p.j + 1, end)

\* Sort(begin, end, greater()): the quicksort pass, then the insertion sort
SortDesc(seq) == InsertionSort(InitialQuickSort(seq, 0, Len(seq)))

-----------------------------------------------------------------------------
(* Display queries *)

\* what SDL knows of a monitor: the display modes in SDL's order, the mode the
\* desktop runs, and the indices for which SDL_GetDisplayMode fails
Display(modes, desktop, failed) ==
    [modes |-> modes, desktop |-> desktop, failed |-> failed]

\* GetMonitorCount
GetMonitorCount == Len(displays)

\* SDL_GetDisplayName(i)
DisplayName(i) == <<"M">> \o FormatInt(i)

\* GetDesktopResolution: SDL_GetDesktopDisplayMode fails when there is no such
\* monitor
GetDesktopResolution(monitor) ==
    IF monitor >= 0 /\ monitor < Len(displays)
    THEN displays[monitor + 1].desktop
    ELSE Resolution(0, 0, 0)

\* SDL_GetNumDisplayModes: negative when there is no such monitor
SDL_GetNumDisplayModes(monitor) ==
    IF monitor >= 0 /\ monitor < Len(displays)
    THEN Len(displays[monitor + 1].modes)
    ELSE -1

\* the loop of GetFullscreenResolutions from mode i on: the modes kept for
\* rate, in order; a mode SDL_GetDisplayMode fails for is skipped
RECURSIVE SelectModes(_, _, _)
SelectModes(monitor, i, rate) ==
    IF i >= SDL_GetNumDisplayModes(monitor) THEN <<>>
    ELSE LET mode == displays[monitor + 1].modes[i + 1]
         IN  (IF i \in displays[monitor + 1].failed THEN <<>>
              ELSE IF rate = -1 \/ (rate # -1 /\ mode.refreshrate = rate)
              THEN <<mode>> ELSE <<>>)
             \o SelectModes(monitor, i + 1, rate)

\* GetFullscreenResolutions
GetFullscreenResolutions(monitor, rate) ==
    IF monitor < 0 THEN <<>>
    ELSE SortDesc(SelectModes(monitor, 0, rate))

\* the refresh rates of modes, each once, in order of first appearance
RECURSIVE UniqueRates(_, _)
UniqueRates(modes, rates) ==
    IF Len(modes) = 0 THEN rates
    ELSE UniqueRates(Tail(modes),
                     IF \E i \in 1..Len(rates) : rates[i] = modes[1].refreshrate
                     THEN rates ELSE Append(rates, modes[1].refreshrate))

\* GetFullscreenRefreshRates
GetFullscreenRefreshRates(monitor) ==
    IF monitor < 0 THEN <<>>
    ELSE UniqueRates(GetFullscreenResolutions(monitor, -1), <<>>)

-----------------------------------------------------------------------------
(* Option widgets *)

\* UIMultiOption: a list of strings and the index of the one shown
MultiOption(strings, index) == [strings |-> strings, index |-> index]

SetStrings(w, strings) == [w EXCEPT !.strings = strings]

SetOptionIndex(w, index) == [w EXCEPT !.index = index]

\* UIMultiOption::GetValue: the string shown
GetValue(w) ==
    IF w.index >= 0 /\ w.index < Len(w.strings) THEN w.strings[w.index + 1] ELSE <<>>

VideoNames == {"OptFullscreen", "OptMonitor", "OptResolution", "OptRate", "OptVsync"}
MiscVideoNames == {"OptResizable", "OptFpsLimit"}
GraphicsNames == {"OptTextureQuality", "OptMaterialQuality", "OptShadows",
                  "OptShadowQuality", "OptOcclusion", "OptInstancing",
                  "OptSpecular", "OptHdr"}
OptionNames == VideoNames \cup MiscVideoNames \cup GraphicsNames

\* UIOption::HasTag, with the tags InitControls sets
HasTag(name, tag) ==
    \/ tag = "video" /\ name \in VideoNames
    \/ tag = "misc-video" /\ name \in MiscVideoNames
    \/ tag = "graphics" /\ name \in GraphicsNames

\* the member that holds the option called name
Member(name) ==
    CASE name = "OptFullscreen"      -> "opt_fullscreen_"
      [] name = "OptMonitor"         -> "opt_monitor_"
      [] name = "OptResolution"      -> "opt_resolution_"
      [] name = "OptRate"            -> "opt_rate_"
      [] name = "OptVsync"           -> "opt_vsync_"
      [] name = "OptResizable"       -> "opt_resizable_"
      [] name = "OptFpsLimit"        -> "opt_fpslimit_"
      [] name = "OptTextureQuality"  -> "opt_texture_quality_"
      [] name = "OptMaterialQuality" -> "opt_material_quality_"
      [] name = "OptShadows"         -> "opt_shadows_"
      [] name = "OptShadowQuality"   -> "opt_shadow_quality_"
      [] name = "OptOcclusion"       -> "opt_occlusion_"
      [] name = "OptInstancing"      -> "opt_instancing_"
      [] name = "OptSpecular"        -> "opt_specular_"
      [] name = "OptHdr"             -> "opt_hdr_"

BoolNames == {"OptVsync", "OptResizable"}

fullscreen_options == <<"Window", "Borderless Window", "Fullscreen">>
fpslimit_options == <<<<"U", "n", "l", "i", "m", "i", "t", "e", "d">>,
                      <<"3", "0">>, <<"6", "0">>, <<"7", "5">>,
                      <<"1", "0", "0">>, <<"1", "4", "4">>, <<"2", "4", "0">>>>
quality_options == <<"Low", "Medium", "High">>
shadows_options == <<"Off", "Low", "Medium", "High">>
shadow_quality_options == <<"Simple 16 bit", "Simple 24 bit", "PCF 16 bit",
                            "PCF 24 bit", "VSM", "Blur VSM">>
options_bool == <<"Off", "On">>

\* the widgets before InitControls has run
NoControls ==
    [opt_fullscreen_ |-> MultiOption(<<>>, 0), opt_monitor_ |-> MultiOption(<<>>, 0),
     opt_resolution_ |-> MultiOption(<<>>, 0), opt_rate_ |-> MultiOption(<<>>, 0),
     opt_vsync_ |-> FALSE, opt_resizable_ |-> FALSE,
     opt_fpslimit_ |-> MultiOption(<<>>, 0),
     opt_texture_quality_ |-> MultiOption(<<>>, 0),
     opt_material_quality_ |-> MultiOption(<<>>, 0),
     opt_shadows_ |-> MultiOption(<<>>, 0),
     opt_shadow_quality_ |-> MultiOption(<<>>, 0),
     opt_occlusion_ |-> MultiOption(<<>>, 0), opt_instancing_ |-> MultiOption(<<>>, 0),
     opt_specular_ |-> MultiOption(<<>>, 0), opt_hdr_ |-> MultiOption(<<>>, 0),
     btn_apply_ |-> [enabled |-> TRUE, focusable |-> TRUE],
     window_visible |-> FALSE]

\* GraphicsSettings::InitWindow and InitControls: the widgets as created
InitControls ==
    [NoControls EXCEPT
        !.opt_fullscreen_ = MultiOption(fullscreen_options, 0),
        !.opt_fpslimit_ = MultiOption(fpslimit_options, 0),
        !.opt_texture_quality_ = MultiOption(quality_options, 0),
        !.opt_material_quality_ = MultiOption(quality_options, 0),
        !.opt_shadows_ = MultiOption(shadows_options, 0),
        !.opt_shadow_quality_ = MultiOption(shadow_quality_options, 0),
        !.opt_occlusion_ = MultiOption(options_bool, 0),
        !.opt_instancing_ = MultiOption(options_bool, 0),
        !.opt_specular_ = MultiOption(options_bool, 0),
        !.opt_hdr_ = MultiOption(options_bool, 0),
        !.window_visible = TRUE]

-----------------------------------------------------------------------------
(* Engine subsystems *)

\* the arguments of a call of Graphics::SetMode; this value stands for no call
NoSetMode ==
    [width |-> 0, height |-> 0, fullscreen |-> FALSE, borderless |-> FALSE,
     resizable |-> FALSE, vsync |-> FALSE, monitor |-> 0, refreshRate |-> 0]

\* a handler works on the world w: the subsystems, the widgets and the
\* GraphicsSettings members; w.setMode records a call of Graphics::SetMode and
\* w.setModeArgs the arguments of the call
World == [graphics |-> graphics, renderer |-> renderer, engine |-> engine,
          ui |-> ui, app |-> app, setMode |-> FALSE, setModeArgs |-> NoSetMode]

\* Graphics::SetMode(width, height, fullscreen, borderless, resizable,
\* highDPI, vsync, tripleBuffer, multiSample, monitor, refreshRate): borderless
\* excludes fullscreen, neither is resizable, and a size of 0x0 stands for the
\* desktop size of the monitor
SetMode(g, width, height, fullscreen, borderless, resizable, vsync, monitor, refreshRate) ==
    LET fs   == fullscreen /\ ~borderless
        zero == width = 0 \/ height = 0
        desk == GetDesktopResolution(monitor)
    IN  [g EXCEPT !.width = IF zero THEN desk.width ELSE width,
                  !.height = IF zero THEN desk.height ELSE height,
                  !.fullscreen = fs,
                  !.borderless = borderless,
                  !.resizable = resizable /\ ~fs /\ ~borderless,
                  !.vsync = vsync,
                  !.monitor = monitor,
                  !.refreshRate = refreshRate]

\* the arguments ApplyVideoOptions gives SetMode for the resolution res, the
\* Display Mode index fullscreen, the V-Sync value and the Monitor index
SetModeArguments(res, fullscreen, vsync, monitor) ==
    [width |-> res.width, height |-> res.height,
     fullscreen |-> fullscreen = 2, borderless |-> fullscreen = 1,
     resizable |-> TRUE, vsync |-> vsync, monitor |-> monitor,
     refreshRate |-> res.refreshrate]

\* the call of SetMode with the arguments a
SetModeWith(g, a) ==
    SetMode(g, a.width, a.height, a.fullscreen, a.borderless, a.resizable, a.vsync,
            a.monitor, a.refreshRate)

\* Graphics::SetWindowPosition
SetWindowPosition(g, position) == [g EXCEPT !.position = position]

\* the smallest shadow map the Renderer keeps
SHADOW_MIN_PIXELS == 64

\* the first power of two from p on that is not below value; 2^31 is the
\* least int once it is stored in an int
RECURSIVE PowerOfTwoFrom(_, _)
PowerOfTwoFrom(p, value) ==
    IF p >= value THEN p
    ELSE IF p = 1073741824 THEN INT_MIN
    ELSE PowerOfTwoFrom(2 * p, value)

\* NextPowerOfTwo(value), for 1 <= value <= INT_MAX
NextPowerOfTwo(value) == PowerOfTwoFrom(1, value)

\* Renderer::SetShadowMapSize: the size kept is
\* NextPowerOfTwo(Max(size, SHADOW_MIN_PIXELS))
SetShadowMapSize(size) ==
    NextPowerOfTwo(IF size > SHADOW_MIN_PIXELS THEN size ELSE SHADOW_MIN_PIXELS)

\* Renderer::SetMaxOccluderTriangles: the budget kept is Max(triangles, 0)
SetMaxOccluderTriangles(triangles) == IF triangles > 0 THEN triangles ELSE 0

\* the Renderer setters ApplyGraphicsOptions calls (SetTextureQuality,
\* SetMaterialQuality, SetDrawShadows, SetShadowMapSize, SetShadowQuality,
\* SetMaxOccluderTriangles, SetDynamicInstancing, SetSpecularLighting,
\* SetHDRRendering).  The shadow map size is rounded up to a power of two;
\* the qualities the options offer, instancing and the shadow formats are
\* kept as given, as on hardware that supports them
SetRendererOptions(r, args) ==
    [r EXCEPT !.textureQuality = args[1],
              !.materialQuality = args[2],
              !.drawShadows = args[3],
              !.shadowMapSize = SetShadowMapSize(args[4]),
              !.shadowQuality = args[5],
              !.maxOccluderTriangles = SetMaxOccluderTriangles(args[6]),
              !.dynamicInstancing = args[7],
              !.specularLighting = args[8],
              !.hdrRendering = args[9]]

\* shadow map texels per step of the Shadows option
ShadowMapStep == 512
\* occluder triangle budget with Occlusion on
OccluderTriangles == 5000

\* enum RenderWindowMode
RWM_WINDOWED == 0
RWM_FULLSCREEN_WINDOW == 1
RWM_FULLSCREEN == 2

-----------------------------------------------------------------------------
(* GraphicsSettings: filling the option lists *)

\* the strings FillRates shows: the rates reversed, each formatted with "%d"
RateStrings(rates) == [i \in 1..Len(rates) |-> FormatInt(Reverse(rates)[i])]

\* the strings FillResolutions shows: each resolution without its rate
ResolutionStrings(resolutions) ==
    [i \in 1..Len(resolutions) |-> ToString(resolutions[i], FALSE)]

\* SetStrings(res) followed by SetOptionIndex(res.Size() - 1)
SetStringsSelectLast(w, res) == SetOptionIndex(SetStrings(w, res), Len(res) - 1)

\* GraphicsSettings::FillRates, on the widgets u
FillRates(u, monitor) ==
    [u EXCEPT !.opt_rate_ =
        SetStringsSelectLast(@, RateStrings(GetFullscreenRefreshRates(monitor)))]

\* a FillResolutions that forgets to reverse the list
FillResolutions_NoReverse(u, monitor, rate) ==
    [u EXCEPT !.opt_resolution_ =
        SetStringsSelectLast(@, ResolutionStrings(
            GetFullscreenResolutions(monitor, rate)))]

\* GraphicsSettings::FillResolutions, on the widgets u
FillResolutions(u, monitor, rate) ==
    [u EXCEPT !.opt_resolution_ =
        SetStringsSelectLast(@, ResolutionStrings(
            Reverse(GetFullscreenResolutions(monitor, rate))))]

\* FillResolutions for the rate the Refresh Rate option shows
FillResolutionsAtRate(u, monitor) ==
    FillResolutions(u, monitor, ToInt(GetValue(u.opt_rate_), 10))

\* the Apply button follows needs_apply_
SetApplyButton(u, on) ==
    [u EXCEPT !.btn_apply_ = [enabled |-> on, focusable |-> on]]

-----------------------------------------------------------------------------
(* GraphicsSettings: the refresh and apply routines *)

\* RefreshVideoOptions up to its first widget call: refreshing_ is set, the
\* windowed size and position are recorded, the Apply button follows
\* needs_apply_.  The widget calls that follow send option-changed events
\* while refreshing_ is set, which is why the routine has a state in between.
RefreshVideoOptions_Begin(w) ==
    LET g    == w.graphics
        app1 == [w.app EXCEPT !.refreshing_ = TRUE]
        app2 == IF ~g.fullscreen /\ ~g.borderless
                THEN [app1 EXCEPT !.windowed_resolution_ = <<g.width, g.height>>,
                                  !.windowed_position_ = g.position]
                ELSE app1
    IN  [w EXCEPT !.app = app2,
                  !.ui = SetApplyButton(@, app2.needs_apply_)]

\* the index RefreshVideoOptions looks for: the first entry of resolutions
\* equal to the current size and refresh rate, -1 when there is none
FindResolution(resolutions, size_x, size_y, refreshrate) ==
    LET hits == {i \in 1..Len(resolutions) :
                    /\ resolutions[i].width = size_x
                    /\ resolutions[i].height = size_y
                    /\ resolutions[i].refreshrate = refreshrate}
    IN  IF hits = {} THEN -1
        ELSE (CHOOSE i \in hits : \A j \in hits : i <= j) - 1

\* RefreshVideoOptions: the Monitor option lists the displays and shows the
\* current one
RefreshMonitorOption(u, monitor) ==
    [u EXCEPT !.opt_monitor_ =
        SetOptionIndex(SetStrings(@, [i \in 1..GetMonitorCount |-> DisplayName(i - 1)]),
                       monitor)]

\* RefreshVideoOptions: the index of the current mode among the resolutions
\* of the monitor and rate the options show, -1 outside fullscreen
CurrentResolutionIndex(u, g) ==
    IF g.fullscreen
    THEN FindResolution(
             Reverse(GetFullscreenResolutions(u.opt_monitor_.index,
                         ToInt(GetValue(u.opt_rate_), 10))),
             g.width, g.height, g.refreshRate)
    ELSE -1

\* RefreshVideoOptions: the Resolution option shows res_index when one was found
SelectResolution(u, res_index) ==
    IF res_index # -1
    THEN [u EXCEPT !.opt_resolution_ = SetOptionIndex(@, res_index)]
    ELSE u

\* RefreshVideoOptions: the Display Mode option and the resolution, on the
\* widgets u with their lists filled
RefreshModeOptions(u, g) ==
    SelectResolution([u EXCEPT !.opt_fullscreen_ = SetOptionIndex(@, RWM_WINDOWED)],
                     CurrentResolutionIndex(u, g))

\* RefreshVideoOptions: the widget calls in order, for the graphics state g
RefreshVideoWidgets(u, g) ==
    [RefreshModeOptions(
         FillResolutionsAtRate(FillRates(RefreshMonitorOption(u, g.monitor), g.monitor),
                               g.monitor),
         g)
     EXCEPT !.opt_vsync_ = g.vsync, !.opt_resizable_ = g.resizable]

\* the rest of RefreshVideoOptions: the option lists are filled from the
\* current monitor, the options are set, refreshing_ is cleared.  The local
\* `mode` is computed from the screen mode and never used: the Display Mode
\* option is set to RWM_WINDOWED.
RefreshVideoOptions_End(w) ==
    [w EXCEPT !.ui = RefreshVideoWidgets(@, w.graphics),
              !.app.refreshing_ = FALSE]

\* ApplyVideoOptions: the window is put back at position when the Display
\* Mode index fullscreen is 0
RestoreWindowPosition(g, fullscreen, position) ==
    IF fullscreen = 0 THEN SetWindowPosition(g, position) ELSE g

\* ApplyVideoOptions: SetMode with the arguments a, then the window position
SetModeThenPosition(w, a, fullscreen) ==
    [w EXCEPT !.graphics = RestoreWindowPosition(SetModeWith(@, a), fullscreen,
                                                 w.app.windowed_position_),
              !.setMode = TRUE, !.setModeArgs = a]

\* ApplyVideoOptions without the refresh rate of the Refresh Rate option
ApplyVideoOptions_NoRate(w) ==
    LET u          == w.ui
        fullscreen == u.opt_fullscreen_.index
        res0       == Resolution(0, 0, 0)
        res1       == IF fullscreen = 0
                      THEN Resolution(w.app.windowed_resolution_[1],
                                      w.app.windowed_resolution_[2], 0)
                      ELSE res0
        res        == IF fullscreen = 1 THEN Resolution(0, 0, 0)
                      ELSE IF fullscreen = 2
                      THEN FromString(GetValue(u.opt_resolution_))
                      ELSE res1
    IN  SetModeThenPosition(w, SetModeArguments(res, fullscreen, u.opt_vsync_,
                                                u.opt_monitor_.index),
                            fullscreen)

\* GraphicsSettings::ApplyVideoOptions
ApplyVideoOptions(w) ==
    LET u          == w.ui
        fullscreen == u.opt_fullscreen_.index
        res0       == Resolution(0, 0, 0)
        res1       == IF fullscreen = 0
                      THEN Resolution(w.app.windowed_resolution_[1],
                                      w.app.windowed_resolution_[2], 0)
                      ELSE res0
        res        == IF fullscreen = 1 THEN Resolution(0, 0, 0)
                      ELSE IF fullscreen = 2
                      THEN [FromString(GetValue(u.opt_resolution_)) EXCEPT
                               !.refreshrate = ToInt(GetValue(u.opt_rate_), 10)]
                      ELSE res1
    IN  SetModeThenPosition(w, SetModeArguments(res, fullscreen, u.opt_vsync_,
                                                u.opt_monitor_.index),
                            fullscreen)

\* RefreshGraphicsOptions up to its first widget call
RefreshGraphicsOptions_Begin(w) == [w EXCEPT !.app.refreshing_ = TRUE]

\* the rest of RefreshGraphicsOptions
RefreshGraphicsOptions_End(w) ==
    LET r == w.renderer
        u == [w.ui EXCEPT
                !.opt_texture_quality_ = SetOptionIndex(@, r.textureQuality),
                !.opt_material_quality_ = SetOptionIndex(@, r.materialQuality),
                !.opt_shadows_ = SetOptionIndex(@,
                    IF r.drawShadows THEN Div32(r.shadowMapSize, ShadowMapStep) ELSE 0),
                !.opt_shadow_quality_ = SetOptionIndex(@, r.shadowQuality),
                !.opt_occlusion_ = SetOptionIndex(@,
                    IF r.maxOccluderTriangles > 0 THEN 1 ELSE 0),
                !.opt_instancing_ = SetOptionIndex(@, IF r.dynamicInstancing THEN 1 ELSE 0),
                !.opt_specular_ = SetOptionIndex(@, IF r.specularLighting THEN 1 ELSE 0),
                !.opt_hdr_ = SetOptionIndex(@, IF r.hdrRendering THEN 1 ELSE 0)]
    IN  [w EXCEPT !.ui = u, !.app.refreshing_ = FALSE]

\* GraphicsSettings::ApplyGraphicsOptions
ApplyGraphicsOptions(w) ==
    IF w.app.refreshing_ THEN w
    ELSE LET u == w.ui IN
         [w EXCEPT !.renderer = SetRendererOptions(@, <<
            u.opt_texture_quality_.index,
            u.opt_material_quality_.index,
            u.opt_shadows_.index # 0,
            Mul32(u.opt_shadows_.index, ShadowMapStep),
            u.opt_shadow_quality_.index,
            IF u.opt_occlusion_.index > 0 THEN OccluderTriangles ELSE 0,
            u.opt_instancing_.index > 0,
            u.opt_specular_.index > 0,
            u.opt_hdr_.index > 0>>)]

-----------------------------------------------------------------------------
(* GraphicsSettings: the event handlers *)

\* SetOptionIndex sends the option-changed event of the option called name:
\* HandleOptionChanged has run when the setter returns
RECURSIVE HandleOptionChanged(_, _)
SendOptionChanged(w, name) == HandleOptionChanged(w, name)

\* FillRates as a call: the widgets are filled and the Refresh Rate option
\* sends its event
CallFillRates(w, monitor) ==
    SendOptionChanged([w EXCEPT !.ui = FillRates(@, monitor)], "OptRate")

\* FillResolutions as a call: the widgets are filled and the Resolution option
\* sends its event
CallFillResolutions(w, monitor, rate) ==
    SendOptionChanged([w EXCEPT !.ui = FillResolutions(@, monitor, rate)],
                      "OptResolution")

\* the call of FillResolutions for the rate the Refresh Rate option shows
CallFillResolutionsAtRate(w, monitor) ==
    CallFillResolutions(w, monitor, ToInt(GetValue(w.ui.opt_rate_), 10))

\* HandleOptionChanged: a new monitor refills the rates and the resolutions,
\* a new rate the resolutions
RefillOptions(w, name) ==
    IF name = "OptMonitor"
    THEN CallFillResolutionsAtRate(CallFillRates(w, w.ui.opt_monitor_.index),
                                   w.ui.opt_monitor_.index)
    ELSE IF name = "OptRate"
    THEN CallFillResolutionsAtRate(w, w.ui.opt_monitor_.index)
    ELSE w

\* HandleOptionChanged: needs_apply_ |= video, and the Apply button follows
\* needs_apply_
FlagNeedsApply(w, video) ==
    [w EXCEPT !.ui = SetApplyButton(@, w.app.needs_apply_ \/ video),
              !.app.needs_apply_ = @ \/ video]

\* HandleOptionChanged: a "misc-video" option is applied to the window and
\* the engine at once
ApplyMiscVideo(w, name) ==
    IF HasTag(name, "misc-video")
    THEN [w EXCEPT !.engine.windowResizable = w.ui.opt_resizable_,
                   !.engine.maxFps =
                       IF w.ui.opt_fpslimit_.index > 0
                       THEN ToInt(GetValue(w.ui.opt_fpslimit_), 10) ELSE 0]
    ELSE w

\* HandleOptionChanged: a "graphics" option is applied at once
ApplyGraphicsTagged(w, name) ==
    IF HasTag(name, "graphics") THEN ApplyGraphicsOptions(w) ELSE w

\* HandleOptionChanged from its refreshing_ test on (the option named name
\* has changed)
OptionChangedWork(w, name) ==
    ApplyGraphicsTagged(
        ApplyMiscVideo(FlagNeedsApply(RefillOptions(w, name), HasTag(name, "video")),
                       name),
        name)

\* a handler without the refreshing_ guard
HandleOptionChanged_Unguarded(w, name) == OptionChangedWork(w, name)

\* a handler that applies a video option as soon as it changes
HandleOptionChanged_AutoApply(w, name) ==
    IF w.app.refreshing_ THEN w
    ELSE IF HasTag(name, "video") THEN ApplyVideoOptions(OptionChangedWork(w, name))
    ELSE OptionChangedWork(w, name)

\* a handler that assigns needs_apply_ instead of or-ing into it
HandleOptionChanged_Assign(w, name) ==
    IF w.app.refreshing_ THEN w
    ELSE LET w1 == OptionChangedWork(w, name) IN
         [w1 EXCEPT !.app.needs_apply_ = HasTag(name, "video")]

\* a handler that does not refill the resolutions when the rate changes
HandleOptionChanged_NoRefill(w, name) ==
    IF w.app.refreshing_ THEN w
    ELSE IF name = "OptRate"
    THEN [OptionChangedWork(w, name) EXCEPT
             !.ui.opt_resolution_ = w.ui.opt_resolution_]
    ELSE OptionChangedWork(w, name)

\* GraphicsSettings::HandleOptionChanged
HandleOptionChanged(w, name) ==
    IF w.app.refreshing_ THEN w ELSE OptionChangedWork(w, name)

\* GraphicsSettings::HandleApply
HandleApply(w) == [ApplyVideoOptions(w) EXCEPT !.app.needs_apply_ = FALSE]

\* GraphicsSettings::HandleClosePressed
HandleClosePressed(w) == [w EXCEPT !.ui.window_visible = FALSE]

-----------------------------------------------------------------------------
(* The dialog as a state machine *)

\* display modes as SDL may list them for two kinds of monitor
CatalogA == <<Resolution(1920, 1080, 60), Resolution(1280, 720, 60),
              Resolution(1920, 1080, 30), Resolution(1280, 720, 30)>>
CatalogB == <<Resolution(1280, 1024, 75), Resolution(800, 600, 60),
              Resolution(1280, 1024, 60), Resolution(800, 600, 75)>>

\* a monitor with the first modes of a catalog, its desktop running the first
Monitors(catalog) ==
    {Display(SubSeq(catalog, 1, n), catalog[1], {}) : n \in 1..MaxModes}

\* a monitor with the first modes of a catalog, its desktop running any of
\* them
DesktopMonitors(catalog) ==
    UNION {{Display(SubSeq(catalog, 1, n), catalog[d], {}) : d \in 1..n} :
              n \in 1..MaxModes}

\* one or two monitors
DisplayConfigs ==
    {<<a>> : a \in Monitors(CatalogA)}
    \cup {<<a, b>> : a \in Monitors(CatalogA), b \in Monitors(CatalogB)}

\* the engine as Sample::Setup starts it: a window on the first monitor
InitialGraphics ==
    [fullscreen |-> FALSE, borderless |-> FALSE, width |-> 1024, height |-> 768,
     monitor |-> 0, refreshRate |-> 0, vsync |-> FALSE, resizable |-> FALSE,
     position |-> <<100, 100>>]

\* the Renderer's defaults
InitialRenderer ==
    [textureQuality |-> 2, materialQuality |-> 2, drawShadows |-> TRUE,
     shadowMapSize |-> 1024, shadowQuality |-> 2, maxOccluderTriangles |-> 5000,
     dynamicInstancing |-> TRUE, specularLighting |-> TRUE, hdrRendering |-> FALSE]

InitialEngine == [maxFps |-> 200, windowResizable |-> FALSE]

\* the members of GraphicsSettings after construction
InitialApp ==
    [refreshing_ |-> FALSE, needs_apply_ |-> FALSE,
     windowed_resolution_ |-> <<0, 0>>, windowed_position_ |-> <<0, 0>>]

\* the window is neither fullscreen nor borderless
Windowed(g) == ~g.fullscreen /\ ~g.borderless

\* the size and the position of the window
WindowGeometry(g) == [size |-> <<g.width, g.height>>, position |-> g.position]

\* the geometry of the window g if it is windowed, else the geometry last
\* seen windowed
LastWindowed(g, last) == IF Windowed(g) THEN WindowGeometry(g) ELSE last

\* the observers h after the handler named handler has left the world w
Observed(h, w, handler) ==
    [h EXCEPT !.setModeBy = IF w.setMode THEN handler ELSE "none",
              !.args = w.setModeArgs,
              !.lastWindowed = LastWindowed(w.graphics, @)]

\* observers of a run, not program state: the handler that called SetMode in
\* the last step ("none" when none did), whether a video option has changed
\* outside a refresh since the last HandleApply, whether an option-changed
\* event has been delivered inside the running refresh, the arguments of the
\* call of SetMode in the last step (NoSetMode when there was none), the size
\* and position the window had the last time it was windowed
InitialHist ==
    [setModeBy |-> "none", changed |-> FALSE, delivered |-> FALSE,
     args |-> NoSetMode, lastWindowed |-> WindowGeometry(InitialGraphics)]

NoProbe == [pc |-> "off"]

\* the dialog constructed on the displays of config, before Start
InitOn(config) ==
    /\ displays = config
    /\ graphics = InitialGraphics
    /\ renderer = InitialRenderer
    /\ engine = InitialEngine
    /\ ui = NoControls
    /\ app = InitialApp
    /\ pc = "init"
    /\ hist = InitialHist
    /\ probe = NoProbe

Init == \E config \in DisplayConfigs : InitOn(config)

\* the world after a handler, written back
Becomes(w) ==
    /\ graphics' = w.graphics
    /\ renderer' = w.renderer
    /\ engine' = w.engine
    /\ ui' = w.ui
    /\ app' = w.app

\* the graphics options the user changes in the dialog specification (every
\* graphics option takes the same path through HandleOptionChanged)
DialogGraphicsNames == {"OptShadows", "OptHdr"}

\* the values the user can give the option called name
Choices(name) ==
    IF name \in BoolNames THEN BOOLEAN
    ELSE IF name = "OptFpsLimit" THEN 0..MaxFpsChoice
    ELSE 0..(Len(ui[Member(name)].strings) - 1)

\* the widgets after the user has set the option called name to v
UserSets(name, v) ==
    IF name \in BoolNames
    THEN [ui EXCEPT ![Member(name)] = v]
    ELSE [ui EXCEPT ![Member(name)] = SetOptionIndex(@, v)]

\* GraphicsSettings::Start: the controls are created and RefreshVideoOptions
\* is entered
Start ==
    /\ pc = "init"
    /\ Becomes(RefreshVideoOptions_Begin([World EXCEPT !.ui = InitControls]))
    /\ pc' = "RefreshVideoOptions"
    /\ hist' = [hist EXCEPT !.setModeBy = "none", !.args = NoSetMode, !.delivered = FALSE]
    /\ UNCHANGED <<displays, probe>>

\* the indices HandleTabChanged is given: the two tabs of the dialog, and the
\* tab of another panel (the handler is subscribed to the event of any sender)
TabIndices == {0, 1, 2}

\* GraphicsSettings::HandleTabChanged: the refresh routine of the tab is
\* entered; an index other than 0 and 1 does nothing
TabChanged(index) ==
    /\ pc = "idle"
    /\ ui.window_visible
    /\ IF index = 0
       THEN Becomes(RefreshVideoOptions_Begin(World)) /\ pc' = "RefreshVideoOptions"
       ELSE IF index = 1
       THEN Becomes(RefreshGraphicsOptions_Begin(World)) /\ pc' = "RefreshGraphicsOptions"
       ELSE Becomes(World) /\ pc' = pc
    /\ hist' = [hist EXCEPT !.setModeBy = "none", !.args = NoSetMode, !.delivered = FALSE]
    /\ UNCHANGED <<displays, probe>>

\* the options a refresh routine sets, each set sending an option-changed event
RefreshedNames(routine) ==
    IF routine = "RefreshVideoOptions"
    THEN {"OptMonitor", "OptRate", "OptResolution", "OptFullscreen", "OptVsync",
          "OptResizable"}
    ELSE GraphicsNames

\* an option-changed event delivered to HandleOptionChanged inside a refresh
\* routine
RefreshDelivers(name) ==
    /\ pc \in {"RefreshVideoOptions", "RefreshGraphicsOptions"}
    /\ name \in RefreshedNames(pc)
    /\ LET w == HandleOptionChanged(World, name)
       IN  /\ Becomes(w)
           /\ hist' = [Observed(hist, w, "HandleOptionChanged") EXCEPT
                          !.delivered = TRUE]
    /\ UNCHANGED <<displays, pc, probe>>

\* the running refresh routine sets the options and returns
RefreshReturns ==
    /\ pc \in {"RefreshVideoOptions", "RefreshGraphicsOptions"}
    /\ IF pc = "RefreshVideoOptions"
       THEN Becomes(RefreshVideoOptions_End(World))
       ELSE Becomes(RefreshGraphicsOptions_End(World))
    /\ pc' = "idle"
    /\ hist' = [hist EXCEPT !.setModeBy = "none", !.args = NoSetMode]
    /\ UNCHANGED <<displays, probe>>

\* the user changes an option: the widget takes the value and
\* HandleOptionChanged runs
OptionChanged(name, v) ==
    /\ pc = "idle"
    /\ ui.window_visible
    /\ LET w == HandleOptionChanged([World EXCEPT !.ui = UserSets(name, v)], name)
       IN  /\ Becomes(w)
           /\ hist' = [Observed(hist, w, "HandleOptionChanged") EXCEPT
                          !.changed = @ \/ HasTag(name, "video")]
    /\ UNCHANGED <<displays, pc, probe>>

\* the user releases the Apply button: HandleApply runs
Apply ==
    /\ pc = "idle"
    /\ ui.window_visible
    /\ ui.btn_apply_.enabled
    /\ LET w == HandleApply(World)
       IN  /\ Becomes(w)
           /\ hist' = [Observed(hist, w, "HandleApply") EXCEPT !.changed = FALSE]
    /\ UNCHANGED <<displays, pc, probe>>

\* the user releases the close button: HandleClosePressed runs
Close ==
    /\ pc = "idle"
    /\ ui.window_visible
    /\ Becomes(HandleClosePressed(World))
    /\ hist' = [hist EXCEPT !.setModeBy = "none", !.args = NoSetMode]
    /\ UNCHANGED <<displays, pc, probe>>

Next ==
    \/ Start
    \/ \E index \in TabIndices : TabChanged(index)
    \/ \E name \in OptionNames : RefreshDelivers(name)
    \/ RefreshReturns
    \/ \E name \in VideoNames : \E v \in Choices(name) : OptionChanged(name, v)
    \/ Apply
    \/ Close

\* the dialog on any of the display configurations, the user changing the
\* options of the Video tab that need Apply
Spec == Init /\ [][Next]_vars

\* the sizes and positions the user can give the window
WindowSizes == {<<1024, 768>>, <<800, 600>>}
WindowPositions == {<<100, 100>>, <<200, 200>>}

\* the user resizes the window (Graphics::OnWindowResized): a windowed,
\* resizable window takes the size; GraphicsSettings handles no event of it
UserResizes(size) ==
    /\ pc = "idle"
    /\ Windowed(graphics)
    /\ graphics.resizable \/ engine.windowResizable
    /\ size # <<graphics.width, graphics.height>>
    /\ graphics' = [graphics EXCEPT !.width = size[1], !.height = size[2]]
    /\ hist' = [hist EXCEPT !.setModeBy = "none", !.args = NoSetMode,
                            !.lastWindowed = LastWindowed(graphics', @)]
    /\ UNCHANGED <<displays, renderer, engine, ui, app, pc, probe>>

\* the user moves the window (Graphics::OnWindowMoved): a windowed window
\* takes the position; GraphicsSettings handles no event of it
UserMoves(position) ==
    /\ pc = "idle"
    /\ Windowed(graphics)
    /\ position # graphics.position
    /\ graphics' = [graphics EXCEPT !.position = position]
    /\ hist' = [hist EXCEPT !.setModeBy = "none", !.args = NoSetMode,
                            !.lastWindowed = LastWindowed(graphics', @)]
    /\ UNCHANGED <<displays, renderer, engine, ui, app, pc, probe>>

\* the options the user changes in the window-geometry specification
GeometryNames == {"OptFullscreen", "OptResizable"}

\* the dialog on one monitor whose desktop runs any of its modes, the user
\* switching the display mode, resizing and moving the window
InitGeometry == \E m \in DesktopMonitors(CatalogA) : InitOn(<<m>>)

NextGeometry ==
    \/ Start
    \/ \E index \in TabIndices : TabChanged(index)
    \/ \E name \in OptionNames : RefreshDelivers(name)
    \/ RefreshReturns
    \/ \E name \in GeometryNames : \E v \in Choices(name) : OptionChanged(name, v)
    \/ Apply
    \/ Close
    \/ \E size \in WindowSizes : UserResizes(size)
    \/ \E position \in WindowPositions : UserMoves(position)

SpecGeometry == InitGeometry /\ [][NextGeometry]_vars

\* the dialog on one monitor, the user changing options of every tag
InitOptions ==
    /\ Init
    /\ displays = <<Display(SubSeq(CatalogA, 1, 2), CatalogA[1], {})>>

NextOptions ==
    \/ Start
    \/ \E index \in TabIndices : TabChanged(index)
    \/ \E name \in OptionNames : RefreshDelivers(name)
    \/ RefreshReturns
    \/ \E name \in VideoNames \cup MiscVideoNames \cup DialogGraphicsNames :
          \E v \in Choices(name) : OptionChanged(name, v)
    \/ Apply
    \/ Close

SpecOptions == InitOptions /\ [][NextOptions]_vars

-----------------------------------------------------------------------------
(* Resolution::FromString and Resolution::ToString on their own *)

\* the characters of the input strings
Alphabet == {"0", "1", "9", "x", "X", "@", "a", "-", "\t", VerticalTab}

RECURSIVE StringsUpTo(_)
StringsUpTo(n) ==
    IF n = 0 THEN {<<>>}
    ELSE LET shorter == StringsUpTo(n - 1)
         IN  shorter \cup {Append(s, c) : s \in {t \in shorter : Len(t) = n - 1},
                                          c \in Alphabet}

SampleDims == {60, 144, 1080, 1920, 2147483647}
Dims == (0..MaxDim) \cup SampleDims

\* probe.pc: "string" (a string to parse), "resolution" (a resolution to
\* format), "parsed" (FromString has returned probe.out); probe.from tells an
\* input string from one ToString made
InitParse ==
    /\ displays = <<>>
    /\ graphics = InitialGraphics
    /\ renderer = InitialRenderer
    /\ engine = InitialEngine
    /\ ui = NoControls
    /\ app = InitialApp
    /\ pc = "init"
    /\ hist = InitialHist
    /\ \/ \E s \in StringsUpTo(MaxStrLen) :
             probe = [pc |-> "string", from |-> "input", str |-> s,
                      r |-> Resolution(0, 0, 0), with_rate |-> FALSE,
                      out |-> Resolution(0, 0, 0)]
       \/ \E w \in Dims, h \in Dims, rate \in Dims, with_rate \in BOOLEAN :
             probe = [pc |-> "resolution", from |-> "ToString", str |-> <<>>,
                      r |-> Resolution(w, h, rate), with_rate |-> with_rate,
                      out |-> Resolution(0, 0, 0)]

\* r.ToString(with_rate)
Format ==
    /\ probe.pc = "resolution"
    /\ probe' = [probe EXCEPT !.pc = "string",
                              !.str = ToString(probe.r, probe.with_rate)]
    /\ UNCHANGED <<displays, graphics, renderer, engine, ui, app, pc, hist>>

\* Resolution::FromString(str)
Parse ==
    /\ probe.pc = "string"
    /\ probe' = [probe EXCEPT !.pc = "parsed", !.out = FromString(probe.str)]
    /\ UNCHANGED <<displays, graphics, renderer, engine, ui, app, pc, hist>>

NextParse == Format \/ Parse

SpecParse == InitParse /\ [][NextParse]_vars

-----------------------------------------------------------------------------
(* FillResolutions on its own *)

\* display modes with equal and with different areas, at two rates
ModeUniverse == {Resolution(4, 3, 60), Resolution(3, 4, 60), Resolution(6, 2, 30),
                 Resolution(2, 2, 60), Resolution(8, 6, 30)}

RECURSIVE ModeListsUpTo(_)
ModeListsUpTo(n) ==
    IF n = 0 THEN {<<>>}
    ELSE LET shorter == ModeListsUpTo(n - 1)
         IN  shorter \cup {Append(s, m) : s \in {t \in shorter : Len(t) = n - 1},
                                          m \in ModeUniverse}

\* a list longer than the quicksort threshold, with equal and different areas
LongModes ==
    [i \in 1..MaxLongModes |->
        Resolution(1 + ((i * 7) % 5), 1 + ((i * 3) % 4), IF i % 3 = 0 THEN 30 ELSE 60)]

\* seq from its element k + 1 on, followed by its first k elements
Rotate(seq, k) == SubSeq(seq, k + 1, Len(seq)) \o SubSeq(seq, 1, k)

\* the lists of modes FillResolutions is given: every short list and the long
\* list in every rotation
FillModeLists ==
    ModeListsUpTo(MaxFillModes) \cup {Rotate(LongModes, k) : k \in 0..(MaxLongModes - 1)}

\* one monitor with any of the lists of modes, SDL_GetDisplayMode failing for
\* at most one of them, the controls created
InitFill ==
    /\ \E modes \in FillModeLists :
          \E failed \in {{}} \cup {{i} : i \in 0..(Len(modes) - 1)} :
             displays = <<Display(modes, Resolution(2, 2, 60), failed)>>
    /\ graphics = InitialGraphics
    /\ renderer = InitialRenderer
    /\ engine = InitialEngine
    /\ ui = InitControls
    /\ app = InitialApp
    /\ pc = "idle"
    /\ hist = InitialHist
    /\ probe = [pc |-> "fill", rate |-> -1]

\* FillResolutions(0, rate), called outside a refresh: the event the
\* Resolution option sends reaches HandleOptionChanged
Fill(rate) ==
    /\ probe.pc = "fill"
    /\ Becomes(CallFillResolutions(World, 0, rate))
    /\ probe' = [pc |-> "filled", rate |-> rate]
    /\ UNCHANGED <<displays, pc, hist>>

NextFill == \E rate \in {-1, 30, 60} : Fill(rate)

SpecFill == InitFill /\ [][NextFill]_vars

-----------------------------------------------------------------------------
(* ApplyGraphicsOptions and RefreshGraphicsOptions on their own *)

\* the graphics options at any indices within their lists
GraphicsControls ==
    {[InitControls EXCEPT
         !.opt_texture_quality_ = SetOptionIndex(@, tq),
         !.opt_material_quality_ = SetOptionIndex(@, mq),
         !.opt_shadows_ = SetOptionIndex(@, sh),
         !.opt_shadow_quality_ = SetOptionIndex(@, sq),
         !.opt_occlusion_ = SetOptionIndex(@, oc),
         !.opt_instancing_ = SetOptionIndex(@, inst),
         !.opt_specular_ = SetOptionIndex(@, sp),
         !.opt_hdr_ = SetOptionIndex(@, hdr)] :
        tq \in 0..(Len(quality_options) - 1), mq \in 0..(Len(quality_options) - 1),
        sh \in 0..(Len(shadows_options) - 1),
        sq \in 0..(Len(shadow_quality_options) - 1),
        oc \in 0..(Len(options_bool) - 1), inst \in 0..(Len(options_bool) - 1),
        sp \in 0..(Len(options_bool) - 1), hdr \in 0..(Len(options_bool) - 1)}

InitGraphicsTab ==
    /\ displays = <<Display(SubSeq(CatalogA, 1, 1), CatalogA[1], {})>>
    /\ graphics = InitialGraphics
    /\ renderer = InitialRenderer
    /\ engine = InitialEngine
    /\ ui \in GraphicsControls
    /\ app = InitialApp
    /\ pc = "idle"
    /\ hist = InitialHist
    /\ probe = [pc |-> "graphics", before |-> ui]

\* ApplyGraphicsOptions()
ApplyGraphics ==
    /\ probe.pc = "graphics"
    /\ Becomes(ApplyGraphicsOptions(World))
    /\ probe' = [probe EXCEPT !.pc = "applied"]
    /\ UNCHANGED <<displays, pc, hist>>

\* RefreshGraphicsOptions(), from entry to return
RefreshGraphics ==
    /\ probe.pc = "applied"
    /\ Becomes(RefreshGraphicsOptions_End(RefreshGraphicsOptions_Begin(World)))
    /\ probe' = [probe EXCEPT !.pc = "refreshed"]
    /\ UNCHANGED <<displays, pc, hist>>

NextGraphicsTab == ApplyGraphics \/ RefreshGraphics

SpecGraphicsTab == InitGraphicsTab /\ [][NextGraphicsTab]_vars

-----------------------------------------------------------------------------
(* Properties *)

Refreshing == {"RefreshVideoOptions", "RefreshGraphicsOptions"}

\* C1: SetMode is called, and the screen mode changes, only in a step of
\* HandleApply; no option change, tab change or close does either.
C1_SetModeOnlyFromApply ==
    [][(graphics' # graphics \/ hist'.setModeBy # "none")
          => hist'.setModeBy = "HandleApply"]_vars

\* the user has chosen Fullscreen, Apply is pending, the engine still runs
\* the window it started with
C1_Witness ==
    /\ pc = "idle"
    /\ hist.changed
    /\ ui.opt_fullscreen_.index = RWM_FULLSCREEN
    /\ graphics = InitialGraphics

\* C2: needs_apply_ is true exactly when a video-tagged option has changed
\* outside a refresh since the last HandleApply (never by a misc-video or
\* graphics option alone, and false again after HandleApply).
C2_NeedsApplyIffVideoChanged == app.needs_apply_ = hist.changed

\* a video option has changed and then the FPS limit: Apply is still pending
C2_Witness ==
    /\ pc = "idle"
    /\ app.needs_apply_
    /\ engine.maxFps = 30
    /\ renderer # InitialRenderer

\* C3: an option-changed event delivered inside a refresh routine changes
\* neither needs_apply_, nor the Apply button, nor a setting of the engine or
\* the renderer; refreshing_ is false whenever no refresh routine is running.
C3_RefreshEventsDoNothing ==
    /\ [](pc \notin Refreshing => ~app.refreshing_)
    /\ [][(pc \in Refreshing /\ pc' = pc)
             => /\ app'.needs_apply_ = app.needs_apply_
                /\ ui'.btn_apply_ = ui.btn_apply_
                /\ graphics' = graphics
                /\ renderer' = renderer
                /\ engine' = engine]_vars

\* an event has been delivered inside RefreshGraphicsOptions after the user
\* had changed settings
C3_Witness ==
    /\ pc = "RefreshGraphicsOptions"
    /\ app.refreshing_
    /\ hist.delivered
    /\ ~app.needs_apply_
    /\ renderer # InitialRenderer

\* the Display Mode index that stands for the engine's screen mode
DisplayModeOf(g) ==
    IF g.fullscreen THEN RWM_FULLSCREEN
    ELSE IF g.borderless THEN RWM_FULLSCREEN_WINDOW
    ELSE RWM_WINDOWED

\* C4: when RefreshVideoOptions returns, the Display Mode option shows the
\* engine's mode: 0 windowed, 1 borderless, 2 fullscreen.
C4_DisplayModeShown ==
    [][(pc = "RefreshVideoOptions" /\ pc' = "idle")
          => ui'.opt_fullscreen_.index = DisplayModeOf(graphics')]_vars

\* an optionally signed run of digits
IsInteger(t) ==
    LET d == IF Len(t) > 0 /\ t[1] = "-" THEN Tail(t) ELSE t
    IN  Len(d) > 0 /\ \A i \in 1..Len(d) : IsDigit(d[i])

\* s reads "WxH" or "WxH@RHz" with integers W, H, R
WellFormed(s) ==
    \E i \in 1..Len(s) :
       /\ s[i] = "x"
       /\ IsInteger(SubSeq(s, 1, i - 1))
       /\ \/ IsInteger(SubSeq(s, i + 1, Len(s)))
          \/ \E j \in (i + 1)..Len(s) :
                /\ s[j] = "@"
                /\ IsInteger(SubSeq(s, i + 1, j - 1))
                /\ Len(s) >= j + 3
                /\ s[Len(s) - 1] = "H" /\ s[Len(s)] = "z"
                /\ IsInteger(SubSeq(s, j + 1, Len(s) - 2))

\* the positions where a non-empty 'x'-separated part of s starts
PartStarts(s) == {i \in 1..Len(s) : s[i] # "x" /\ (i = 1 \/ s[i - 1] = "x")}

\* the part of s that starts at position i holds a digit
HoldsDigit(s, i) ==
    \E j \in i..Len(s) : IsDigit(s[j]) /\ \A k \in i..j : s[k] # "x"

\* the least element of a non-empty set of positions
FirstOf(positions) == CHOOSE i \in positions : \A j \in positions : i <= j

\* is r with refresh rate 0, for non-negative width, height and rate.
C6_RoundTrip ==
    (probe.pc = "parsed" /\ probe.from = "ToString")
        => IF probe.with_rate THEN probe.out = probe.r
           ELSE probe.out = [probe.r EXCEPT !.refreshrate = 0]

\* 1920x1080@60Hz has been formatted and parsed back
C6_Witness ==
    /\ probe.pc = "parsed"
    /\ probe.from = "ToString"
    /\ probe.with_rate
    /\ probe.r = Resolution(1920, 1080, 60)
    /\ probe.str = <<"1", "9", "2", "0", "x", "1", "0", "8", "0", "@", "6", "0", "H", "z">>
    /\ probe.out = probe.r

\* the pixel area an entry of the Resolution option stands for
EntryArea(entry) == FromString(entry).width * FromString(entry).height

\* C7: after FillResolutions the entries are in non-decreasing order of area
\* and the last one is selected; GetFullscreenResolutions returns the modes
\* in non-increasing order of area.
C7_FillResolutionsAscending ==
    probe.pc = "filled"
        => LET strs  == ui.opt_resolution_.strings
               modes == GetFullscreenResolutions(0, probe.rate)
           IN  /\ \A i \in 1..(Len(strs) - 1) :
                     EntryArea(strs[i]) <= EntryArea(strs[i + 1])
               /\ Len(strs) > 0 => ui.opt_resolution_.index = Len(strs) - 1
               /\ \A i \in 1..(Len(modes) - 1) : ~ResLess(modes[i], modes[i + 1])

\* three modes listed largest in the middle have been filled in
C7_Witness ==
    /\ probe.pc = "filled"
    /\ displays[1].modes = <<Resolution(2, 2, 60), Resolution(8, 6, 30), Resolution(4, 3, 60)>>
    /\ displays[1].failed = {}
    /\ probe.rate = -1
    /\ ui.opt_resolution_.strings = <<<<"2", "x", "2">>, <<"4", "x", "3">>, <<"8", "x", "6">>>>
    /\ ui.opt_resolution_.index = 2

\* the positions of the modes of monitor that SDL reports and that run at rate
ModesAt(monitor, rate) ==
    {i \in 1..Len(displays[monitor + 1].modes) :
        /\ (i - 1) \notin displays[monitor + 1].failed
        /\ displays[monitor + 1].modes[i].refreshrate = rate}

\* C8: whenever no handler runs after Start, the Resolution entries are
\* exactly the modes of the monitor selected in the Monitor option that run
\* at the rate selected in the Refresh Rate option.
C8_ResolutionsMatchMonitorAndRate ==
    pc = "idle"
        => LET monitor == ui.opt_monitor_.index
               rate    == ToInt(GetValue(ui.opt_rate_), 10)
               strs    == ui.opt_resolution_.strings
               modes   == displays[monitor + 1].modes
           IN  /\ rate # -1
               /\ Len(strs) = Cardinality(ModesAt(monitor, rate))
               /\ \A i \in ModesAt(monitor, rate) :
                     \E k \in 1..Len(strs) : strs[k] = ToString(modes[i], FALSE)
               /\ \A k \in 1..Len(strs) :
                     \E i \in ModesAt(monitor, rate) : strs[k] = ToString(modes[i], FALSE)

\* the user has moved to the second monitor and to its lower refresh rate
C8_Witness ==
    /\ pc = "idle"
    /\ graphics.monitor = 0
    /\ ui.opt_monitor_.index = 1
    /\ Len(ui.opt_rate_.strings) = 2
    /\ ui.opt_rate_.index = 0
    /\ GetValue(ui.opt_rate_) = <<"6", "0">>
    /\ ui.opt_resolution_.strings = <<<<"8", "0", "0", "x", "6", "0", "0">>>>

\* C9: ApplyGraphicsOptions followed by RefreshGraphicsOptions leaves every
\* graphics option index unchanged, for all indices within the option lists.
C9_ApplyThenRefreshIsIdentity ==
    probe.pc = "refreshed" => ui = probe.before

\* the monitor g is on lists g's size and refresh rate as a mode
Supported(g) ==
    \E i \in 1..Len(displays[g.monitor + 1].modes) :
        /\ (i - 1) \notin displays[g.monitor + 1].failed
        /\ displays[g.monitor + 1].modes[i] = Resolution(g.width, g.height, g.refreshRate)

\* C10: when RefreshVideoOptions returns with the engine in fullscreen at a
\* mode its monitor supports, the Resolution option shows the engine's width
\* and height and the Refresh Rate option the engine's refresh rate.
C10_FullscreenModeShown ==
    [][(pc = "RefreshVideoOptions" /\ pc' = "idle"
           /\ graphics'.fullscreen /\ Supported(graphics'))
          => /\ GetValue(ui'.opt_resolution_)
                   = ToString(Resolution(graphics'.width, graphics'.height, 0), FALSE)
             /\ GetValue(ui'.opt_rate_) = FormatInt(graphics'.refreshRate)]_vars

\* C11: whenever HandleApply has just run, SetMode was called with fullscreen
\* true exactly for Display Mode Fullscreen and borderless true exactly for
\* Borderless Window (never both), with the selected Monitor index and V-Sync
\* value, and with the recorded windowed_resolution_ at rate 0 for Window, 0x0
\* for Borderless Window, and for Fullscreen the width and height the selected
\* Resolution entry shows at the rate the selected Refresh Rate entry shows
C11_SetModeArguments ==
    hist.setModeBy = "HandleApply" =>
        LET a    == hist.args
            mode == ui.opt_fullscreen_.index
        IN  /\ a.fullscreen <=> (mode = RWM_FULLSCREEN)
            /\ a.borderless <=> (mode = RWM_FULLSCREEN_WINDOW)
            /\ ~(a.fullscreen /\ a.borderless)
            /\ a.monitor = ui.opt_monitor_.index
            /\ a.vsync = ui.opt_vsync_
            /\ mode = RWM_WINDOWED =>
                  /\ <<a.width, a.height>> = app.windowed_resolution_
                  /\ a.refreshRate = 0
            /\ mode = RWM_FULLSCREEN_WINDOW =>
                  /\ <<a.width, a.height>> = <<0, 0>>
            /\ mode = RWM_FULLSCREEN =>
                  /\ ToString(Resolution(a.width, a.height, 0), FALSE)
                        = GetValue(ui.opt_resolution_)
                  /\ FormatInt(a.refreshRate) = GetValue(ui.opt_rate_)

\* HandleApply has called SetMode for Fullscreen on the second monitor with a
\* resolution and a refresh rate of that monitor
C11_Witness ==
    /\ hist.setModeBy = "HandleApply"
    /\ ui.opt_fullscreen_.index = RWM_FULLSCREEN
    /\ hist.args.fullscreen
    /\ hist.args.monitor = 1
    /\ hist.args.width = 800
    /\ hist.args.refreshRate = 60

\* C12: a HandleApply with Display Mode set to Window leaves the engine's
\* window with the size and the position the window had the last time it was
\* windowed (neither fullscreen nor borderless) before the apply
C12_WindowedGeometryRestored ==
    [][(hist'.setModeBy = "HandleApply" /\ ui.opt_fullscreen_.index = RWM_WINDOWED)
          => WindowGeometry(graphics') = hist.lastWindowed]_vars

====
